---- MODULE Spec2Model ----
(***************************************************************************)
(* A model of the Colosseum profiles crawler:                              *)
(*   colosseum_database.py        the store adapter (upsert by username)   *)
(*   colosseum_scraper.py         the normalizer and the crawl driver      *)
(*   colosseum_main.py            the command line entry point             *)
(*   colosseum_cookie_handler.py  the credential loader                    *)
(*                                                                         *)
(* Python values are records [t, s, l, b, n] tagged by their type t;       *)
(* strings are sequences of one-character strings, a dict is a function    *)
(* from key names to values.                                               *)
(***************************************************************************)
EXTENDS Integers, Sequences, FiniteSets, TLC

(***************************************************************************)
(* Bounds of the model.                                                    *)
(***************************************************************************)
\* insert_profile calls made by the sequential caller
MaxCalls == 2
\* rows of the store before the first call
MaxRows == 2
\* cards of a page
MaxCards == 2
\* responses of a page load
MaxResponses == 2
\* records of a list given to the normalizer
MaxRecs == 2
\* cookies of a credential file
MaxCookies == 2
\* the largest --limit
MaxLimit == 1
\* profiles of a list given to insert_batch
MaxBatch == 2
\* the latest time and expiry, in seconds
MaxTime == 2

(***************************************************************************)
(* Python values.                                                          *)
(***************************************************************************)
PyNone == [t |-> "none", s |-> <<>>, l |-> <<>>, b |-> FALSE, n |-> 0]
PyStr(x) == [t |-> "str", s |-> x, l |-> <<>>, b |-> FALSE, n |-> 0]
PyList(x) == [t |-> "list", s |-> <<>>, l |-> x, b |-> FALSE, n |-> 0]
PyBool(x) == [t |-> "bool", s |-> <<>>, l |-> <<>>, b |-> x, n |-> 0]
PyInt(x) == [t |-> "int", s |-> <<>>, l |-> <<>>, b |-> FALSE, n |-> x]

\* Python truthiness: "if value:" / "if not value:"
Truthy(v) ==
    CASE v.t = "none" -> FALSE
      [] v.t = "str" -> v.s # <<>>
      [] v.t = "list" -> v.l # <<>>
      [] v.t = "bool" -> v.b
      [] v.t = "int" -> v.n # 0

EmptyDict == [k \in {} |-> PyNone]

\* dict.get(key): the value, None when the key is absent
DictGet(d, k) == IF k \in DOMAIN d THEN d[k] ELSE PyNone

\* dict[key] = value
DictSet(d, k, v) == [x \in (DOMAIN d) \cup {k} |-> IF x = k THEN v ELSE d[x]]

\* dict.pop(key, None)
DictPop(d, k) == [x \in (DOMAIN d) \ {k} |-> d[x]]

\* str.startswith('@')
StartsWithAt(x) == Len(x) > 0 /\ x[1] = "@"

RECURSIVE LStripAt(_)
\* str.lstrip('@')
LStripAt(x) == IF StartsWithAt(x) THEN LStripAt(Tail(x)) ELSE x


RECURSIVE SplitComma(_)
\* str.split(','): the pieces of x between commas
SplitComma(x) ==
    IF \E i \in 1..Len(x) : x[i] = ","
    THEN LET i == CHOOSE j \in 1..Len(x) :
                      x[j] = "," /\ \A m \in 1..(j - 1) : x[m] # ","
         IN <<SubSeq(x, 1, i - 1)>> \o SplitComma(SubSeq(x, i + 1, Len(x)))
    ELSE <<x>>

(***************************************************************************)
(* colosseum_database.py                                                   *)
(***************************************************************************)
VARIABLES
    table,      \* the rows of colosseum_profiles, in insertion order
    dbReads,    \* select requests issued to the store
    dbWrites,   \* insert/update requests issued to the store
    ncalls,     \* insert_profile calls made so far
    call,       \* the last insert_profile call: its argument and result
    batch,      \* the insert_batch call: its argument, the store failures
                \* it met and its result
    inflight,   \* the insert_profile calls of the concurrent callers: where
                \* each one is, its argument, what its existence check
                \* found and its result
    run_effect  \* the rows the save callback has added to the store and
                \* the existing rows it has updated

dbVars ==
    <<table, dbReads, dbWrites, ncalls, call, batch, inflight, run_effect>>

JsonDigits == {"0", "7"}
JsonDigitVal(c) == IF c = "7" THEN 7 ELSE 0

RECURSIVE JsonNumber(_)
JsonNumber(x) ==
    IF x = <<>> THEN 0
    ELSE 10 * JsonNumber(SubSeq(x, 1, Len(x) - 1)) + JsonDigitVal(x[Len(x)])

\* a JSON scalar: a number or a quoted string; anything else is an error
JsonScalar(x) ==
    IF x # <<>> /\ (\A i \in 1..Len(x) : x[i] \in JsonDigits)
       /\ (Len(x) > 1 => x[1] # "0")
    THEN [ok |-> TRUE, v |-> PyInt(JsonNumber(x))]
    ELSE IF Len(x) >= 2 /\ x[1] = "\"" /\ x[Len(x)] = "\""
            /\ (\A i \in 2..(Len(x) - 1) : x[i] \notin {"\"", "[", "]", ","})
    THEN [ok |-> TRUE, v |-> PyStr(SubSeq(x, 2, Len(x) - 1))]
    ELSE [ok |-> FALSE, v |-> PyNone]

\* json.loads(value): a scalar or a flat array of scalars
JsonLoads(x) ==
    IF JsonScalar(x).ok THEN JsonScalar(x)
    ELSE IF Len(x) >= 2 /\ x[1] = "[" /\ x[Len(x)] = "]"
    THEN LET inner == SubSeq(x, 2, Len(x) - 1)
             parts == SplitComma(inner)
         IN IF inner = <<>> THEN [ok |-> TRUE, v |-> PyList(<<>>)]
            ELSE IF \A i \in 1..Len(parts) : JsonScalar(parts[i]).ok
            THEN [ok |-> TRUE,
                  v |-> PyList([i \in 1..Len(parts) |-> JsonScalar(parts[i]).v])]
            ELSE [ok |-> FALSE, v |-> PyNone]
    ELSE [ok |-> FALSE, v |-> PyNone]

internal_fields == {"card_index"}

jsonb_fields ==
    {"tags", "languages", "i_am_a_roles", "looking_for_roles",
     "interested_in_topics"}

\* ColosseumDatabase._prepare_profile_data
prepare_profile_data(data) ==
    [k \in (DOMAIN data) \ internal_fields |->
        IF k \in jsonb_fields
        THEN IF data[k].t = "none" THEN PyList(<<>>)
             ELSE IF data[k].t = "str"
             THEN IF JsonLoads(data[k].s).ok THEN JsonLoads(data[k].s).v
                  ELSE PyList(<<>>)
             ELSE data[k]
        ELSE data[k]]

\* .eq("username", username): the positions of the matching rows
RowsWithUsername(tbl, username) ==
    {i \in 1..Len(tbl) : DictGet(tbl[i], "username") = username}

\* .update(profile_data) applied to one row
UpdateRow(row, profile_data) ==
    [k \in (DOMAIN row) \cup (DOMAIN profile_data) |->
        IF k \in DOMAIN profile_data THEN profile_data[k] ELSE row[k]]

\* an existence check that never finds the row
ProfileExists_NeverFound(tbl, username) == FALSE

\* the existence check of insert_profile: existing.data is non-empty
ProfileExists(tbl, username) == RowsWithUsername(tbl, username) # {}

\* a username check that only rejects None
UsernameMissing_NoneOnly(username) == username.t = "none"

\* the username check of insert_profile: "if not username"
UsernameMissing(username) == ~Truthy(username)

\* ColosseumDatabase.insert_profile on the store tbl; fail names the store
\* request that raises: "none", "select" or "write"
insert_profile(tbl, profile_data, fail) ==
    LET username == DictGet(profile_data, "username")
        prepared == prepare_profile_data(profile_data)
    IN IF UsernameMissing(username)
       THEN [table |-> tbl, ok |-> FALSE, reads |-> 0, writes |-> 0]
       ELSE IF fail = "select"
       THEN [table |-> tbl, ok |-> FALSE, reads |-> 1, writes |-> 0]
       ELSE IF fail = "write"
       THEN [table |-> tbl, ok |-> FALSE, reads |-> 1, writes |-> 1]
       ELSE IF ProfileExists(tbl, username)
       THEN [table |-> [i \in 1..Len(tbl) |->
                          IF i \in RowsWithUsername(tbl, username)
                          THEN UpdateRow(tbl[i], prepared) ELSE tbl[i]],
             ok |-> TRUE, reads |-> 1, writes |-> 1]
       ELSE [table |-> Append(tbl, prepared),
             ok |-> TRUE, reads |-> 1, writes |-> 1]

StoreFailures == {"none", "select", "write"}

\* two callers of insert_profile on the same store
Callers == {1, 2}

RECURSIVE insert_batch_StopAtFailure(_, _, _)
\* a batch that ends at the first profile whose upsert fails
insert_batch_StopAtFailure(tbl, profiles, fails) ==
    IF profiles = <<>>
    THEN [table |-> tbl, count |-> 0, reads |-> 0, writes |-> 0]
    ELSE LET r == insert_profile(tbl, Head(profiles), Head(fails))
             rest == insert_batch_StopAtFailure(r.table, Tail(profiles),
                                                Tail(fails))
         IN IF ~r.ok
            THEN [table |-> r.table, count |-> 0, reads |-> r.reads,
                  writes |-> r.writes]
            ELSE [table |-> rest.table, count |-> 1 + rest.count,
                  reads |-> r.reads + rest.reads,
                  writes |-> r.writes + rest.writes]

RECURSIVE BatchLoop(_, _, _)
\* the loop of insert_batch; fails[i] names the store request that raises
\* during the call for profiles[i]
BatchLoop(tbl, profiles, fails) ==
    IF profiles = <<>>
    THEN [table |-> tbl, count |-> 0, reads |-> 0, writes |-> 0]
    ELSE LET r == insert_profile(tbl, Head(profiles), Head(fails))
             rest == BatchLoop(r.table, Tail(profiles), Tail(fails))
         IN [table |-> rest.table,
             count |-> (IF r.ok THEN 1 ELSE 0) + rest.count,
             reads |-> r.reads + rest.reads,
             writes |-> r.writes + rest.writes]

\* ColosseumDatabase.insert_batch
insert_batch(tbl, profiles, fails) == BatchLoop(tbl, profiles, fails)


(***************************************************************************)
(* colosseum_scraper.py: _normalize_api_profiles                           *)
(***************************************************************************)
VARIABLES
    api_input,      \* the list of raw records given to the normalizer
    normalized,     \* _normalize_api_profiles(api_input)
    renormalized,   \* _normalize_api_profiles(normalized)
    npass           \* how many times the normalizer has run

normVars == <<api_input, normalized, renormalized, npass>>

\* self.base_url followed by "/profiles/"
ProfilesUrlPrefix == <<"https://arena.colosseum.org", "/profiles/">>

field_mappings ==
    [username |-> <<"username", "handle", "user_name", "userName">>,
     display_name |-> <<"display_name", "displayName", "name", "full_name",
                        "fullName">>,
     description |-> <<"description", "bio", "short_bio", "shortBio">>,
     location |-> <<"location", "city", "country">>,
     company |-> <<"company", "organization", "org">>,
     about |-> <<"about", "bio", "description", "longBio">>,
     avatar_url |-> <<"avatar_url", "avatarUrl", "avatar", "image",
                      "profileImage">>]

array_mappings ==
    [tags |-> <<"tags", "roles", "skills">>,
     languages |-> <<"languages", "language">>,
     i_am_a_roles |-> <<"i_am_a_roles", "iAmARoles", "myRoles">>,
     looking_for_roles |-> <<"looking_for_roles", "lookingForRoles",
                             "seekingRoles">>,
     interested_in_topics |-> <<"interested_in_topics", "interestedInTopics",
                                "interests", "topics">>]

RECURSIVE MapScalarField(_, _)
\* the inner loop over field_mappings: the first api_field that is in the
\* record with a truthy value; the default None when there is none
MapScalarField(profile, api_fields) ==
    IF api_fields = <<>> THEN PyNone
    ELSE IF Head(api_fields) \in DOMAIN profile
            /\ Truthy(profile[Head(api_fields)])
    THEN profile[Head(api_fields)]
    ELSE MapScalarField(profile, Tail(api_fields))

\* an array step that stores a string as it is
CoerceArray_NoWrap(value) ==
    IF value.t \in {"list", "str"} THEN value ELSE PyList(<<>>)

\* what the array loop stores for the value of the first api_field present
CoerceArray(value) ==
    IF value.t = "list" THEN value
    ELSE IF value.t = "str" THEN PyList(<<value>>)
    ELSE PyList(<<>>)

RECURSIVE MapArrayField(_, _)
\* the inner loop over array_mappings: stops at the first api_field that is
\* in the record, whatever its value; the default [] when there is none
MapArrayField(profile, api_fields) ==
    IF api_fields = <<>> THEN PyList(<<>>)
    ELSE IF Head(api_fields) \in DOMAIN profile
    THEN CoerceArray(profile[Head(api_fields)])
    ELSE MapArrayField(profile, Tail(api_fields))

\* a username format step that always prefixes
NormalizeUsername_Always(username) == <<"@">> \o username

\* the username format step: prefix "@" unless it is already there
NormalizeUsername(username) ==
    IF StartsWithAt(username) THEN username ELSE <<"@">> \o username

\* the boolean step
MapLookingForTeammates(profile) ==
    IF "looking_for_teammates" \in DOMAIN profile
    THEN PyBool(Truthy(profile["looking_for_teammates"]))
    ELSE IF "lookingForTeammates" \in DOMAIN profile
    THEN PyBool(Truthy(profile["lookingForTeammates"]))
    ELSE PyBool(FALSE)

\* the body of the loop of _normalize_api_profiles for record i: the list
\* of the records it appends, empty when the record has no username or when
\* startswith raises on a username that is not a string
NormalizeRecord(i, profile) ==
    LET username == MapScalarField(profile, field_mappings.username)
    IN IF ~Truthy(username) \/ username.t # "str" THEN <<>>
       ELSE <<[card_index |-> PyInt(i),
               username |-> PyStr(NormalizeUsername(username.s)),
               display_name |->
                   MapScalarField(profile, field_mappings.display_name),
               description |->
                   MapScalarField(profile, field_mappings.description),
               location |-> MapScalarField(profile, field_mappings.location),
               tags |-> MapArrayField(profile, array_mappings.tags),
               languages |-> MapArrayField(profile, array_mappings.languages),
               company |-> MapScalarField(profile, field_mappings.company),
               looking_for_teammates |-> MapLookingForTeammates(profile),
               project_description |-> PyNone,
               i_am_a_roles |->
                   MapArrayField(profile, array_mappings.i_am_a_roles),
               looking_for_roles |->
                   MapArrayField(profile, array_mappings.looking_for_roles),
               interested_in_topics |->
                   MapArrayField(profile, array_mappings.interested_in_topics),
               about |-> MapScalarField(profile, field_mappings.about),
               profile_url |->
                   PyStr(ProfilesUrlPrefix
                         \o LStripAt(NormalizeUsername(username.s))),
               avatar_url |->
                   MapScalarField(profile, field_mappings.avatar_url)]>>

RECURSIVE NormalizeFrom(_, _)
NormalizeFrom(api_profiles, i) ==
    IF i >= Len(api_profiles) THEN <<>>
    ELSE NormalizeRecord(i, api_profiles[i + 1])
         \o NormalizeFrom(api_profiles, i + 1)

\* ColosseumScraper._normalize_api_profiles
normalize_api_profiles(api_profiles) == NormalizeFrom(api_profiles, 0)


(***************************************************************************)
(* colosseum_cookie_handler.py: load_colosseum_cookies                     *)
(*                                                                         *)
(* A domain is the sequence of its dot-separated labels; the other strings *)
(* of a cookie are one-token sequences.  Times are whole seconds.          *)
(***************************************************************************)
VARIABLES
    cookie_file,    \* the credential file: [kind, cookies]
    current_time,   \* time() at the call
    loader          \* the call's outcome: [status, cookies, warnings]

cookieVars == <<cookie_file, current_time, loader>>

important_cookies ==
    {PyStr(<<"sAccessToken">>), PyStr(<<"sFrontToken">>),
     PyStr(<<"st-last-access-token-update">>), PyStr(<<"__vdpl">>)}

ArenaDomain == PyStr(<<"arena", "colosseum", "org">>)
ApiDomain == PyStr(<<"api", "colosseum", "org">>)

\* the labels that end with "colosseum" and those that start with "org"
EndsWithColosseum(label) == label \in {"colosseum", "mycolosseum"}
StartsWithOrg(label) == label \in {"org", "organic"}

\* "colosseum.org" in domain
ContainsColosseumOrg(domain) ==
    \E i \in 1..(Len(domain) - 1) :
        EndsWithColosseum(domain[i]) /\ StartsWithOrg(domain[i + 1])

\* str.lower() and the capitalisation of the sameSite step
LowerToken(x) ==
    CASE x = "Strict" -> "strict"
      [] x = "Lax" -> "lax"
      [] x = "None" -> "none"
      [] OTHER -> x
SameSiteOut(x) ==
    CASE x = "strict" -> "Strict"
      [] x = "lax" -> "Lax"
      [] x = "none" -> "None"

\* expires and expires < current_time
IsExpired(expires, now) == Truthy(expires) /\ expires.n < now

\* the statements of the loop body that raise: the membership test on a
\* domain that is not a string, the comparison of an expiry that is not a
\* number, lower() of a sameSite that is not a string
CookieRaises(cookie) ==
    \/ /\ "domain" \in DOMAIN cookie
       /\ cookie["domain"].t \in {"none", "int", "bool"}
    \/ /\ "domain" \in DOMAIN cookie
       /\ ContainsColosseumOrg(cookie["domain"].s)
       /\ \/ /\ Truthy(DictGet(cookie, "expirationDate"))
             /\ DictGet(cookie, "expirationDate").t \notin {"int", "bool"}
          \/ ("sameSite" \in DOMAIN cookie /\ cookie["sameSite"].t # "str")

\* base_cookie of the loop body
BaseCookie(cookie) ==
    LET expires == DictGet(cookie, "expirationDate")
        same_site == IF "sameSite" \in DOMAIN cookie
                     THEN [i \in 1..Len(cookie["sameSite"].s) |->
                              LowerToken(cookie["sameSite"].s[i])]
                     ELSE <<>>
        base == [name |-> IF "name" \in DOMAIN cookie THEN cookie["name"]
                          ELSE PyStr(<<>>),
                 value |-> DictGet(cookie, "value"),
                 path |-> IF "path" \in DOMAIN cookie THEN cookie["path"]
                          ELSE PyStr(<<"/">>)]
        withExpires == IF Truthy(expires)
                       THEN DictSet(base, "expires", PyInt(expires.n))
                       ELSE base
        withHttpOnly == IF DictGet(cookie, "httpOnly").t # "none"
                        THEN DictSet(withExpires, "httpOnly", cookie["httpOnly"])
                        ELSE withExpires
        withSecure == IF DictGet(cookie, "secure").t # "none"
                      THEN DictSet(withHttpOnly, "secure", cookie["secure"])
                      ELSE withHttpOnly
    IN IF same_site \in {<<"strict">>, <<"lax">>, <<"none">>}
       THEN DictSet(withSecure, "sameSite",
                    PyStr(<<SameSiteOut(same_site[1])>>))
       ELSE withSecure

\* domains_to_set of the loop body
DomainsToSet(cookie) ==
    IF "name" \in DOMAIN cookie /\ cookie["name"] \in important_cookies
    THEN <<ArenaDomain, ApiDomain>> ELSE <<ArenaDomain>>

\* one iteration of the loop over cookies_list: the entries it appends and
\* the expiry warnings it prints
CookieStep(cookie, now) ==
    IF ~ContainsColosseumOrg(IF "domain" \in DOMAIN cookie
                             THEN cookie["domain"].s ELSE <<>>)
    THEN [cookies |-> <<>>, warnings |-> <<>>]
    ELSE IF IsExpired(DictGet(cookie, "expirationDate"), now)
    THEN [cookies |-> <<>>,
          warnings |-> <<[kind |-> "expired",
                          name |-> IF "name" \in DOMAIN cookie
                                   THEN cookie["name"] ELSE PyStr(<<>>)]>>]
    ELSE [cookies |-> [i \in 1..Len(DomainsToSet(cookie)) |->
                          DictSet(BaseCookie(cookie), "domain",
                                  DomainsToSet(cookie)[i])],
          warnings |-> <<>>]

RECURSIVE LoadLoop(_, _)
\* the loop over cookies_list; raised when an iteration raises
LoadLoop(cookies_list, now) ==
    IF cookies_list = <<>>
    THEN [raised |-> FALSE, cookies |-> <<>>, warnings |-> <<>>]
    ELSE IF CookieRaises(Head(cookies_list))
    THEN [raised |-> TRUE, cookies |-> <<>>, warnings |-> <<>>]
    ELSE LET step == CookieStep(Head(cookies_list), now)
             rest == LoadLoop(Tail(cookies_list), now)
         IN [raised |-> rest.raised,
             cookies |-> step.cookies \o rest.cookies,
             warnings |-> step.warnings \o rest.warnings]

\* the warning about sAccessToken / sFrontToken missing from the file
MissingWarning(cookies_list) ==
    LET cookie_names == {DictGet(cookies_list[i], "name") :
                            i \in 1..Len(cookies_list)}
    IN IF \E c \in {PyStr(<<"sAccessToken">>), PyStr(<<"sFrontToken">>)} :
              c \notin cookie_names
       THEN <<[kind |-> "missing", name |-> PyStr(<<>>)]>>
       ELSE <<>>

\* load_colosseum_cookies: a file that is missing or is not JSON gives [];
\* an exception of the loop leaves the function.  The loop over a JSON
\* object visits its keys, and cookie.get on a key raises
load_colosseum_cookies(file, now) ==
    IF file.kind \in {"missing", "invalid"}
    THEN [status |-> "returned", cookies |-> <<>>, warnings |-> <<>>]
    ELSE IF file.kind = "object"
    THEN [status |-> "raised", cookies |-> <<>>, warnings |-> <<>>]
    ELSE LET loop == LoadLoop(file.cookies, now)
         IN IF loop.raised
            THEN [status |-> "raised", cookies |-> <<>>,
                  warnings |-> loop.warnings]
            ELSE [status |-> "returned", cookies |-> loop.cookies,
                  warnings |-> loop.warnings \o MissingWarning(file.cookies)]


(***************************************************************************)
(* colosseum_scraper.py: the crawl driver                                  *)
(*                                                                         *)
(* The page is the environment: page.responses are the responses the       *)
(* browser delivers to _handle_response while the page loads, page.cards   *)
(* the profile cards get_profile_card_elements finds.  A card carries what *)
(* the text heuristics read from it (basic), whether a click on it works   *)
(* (clickable) and what they read from the side panel after the click      *)
(* (panel).                                                                *)
(***************************************************************************)
VARIABLES
    page,               \* the profiles page the browser shows
    existing_usernames, \* the known-username set of the run
    max_profiles,       \* the maximum record count, 0 for None
    spc,                \* where scrape_all_profiles is
    pending,            \* responses the browser has not delivered yet
    api_profiles,       \* self.api_profiles
    basic_info,         \* basic_info of scrape_all_profiles
    idx,                \* the position of its main loop in basic_info
    profiles,           \* the list it builds and returns
    handed,             \* the profiles save_profile_immediately was called with
    merge_log           \* the last click_profile_and_extract_details call

scrapeVars ==
    <<page, existing_usernames, max_profiles, spc, pending, api_profiles,
      basic_info, idx, profiles, handed, merge_log>>

\* self.profiles_url
ProfilesUrl == PyStr(<<"https://arena.colosseum.org", "/profiles">>)

\* the profile dict extract_basic_info_from_card starts from
BasicInfoDefaults ==
    [username |-> PyNone, display_name |-> PyNone, description |-> PyNone,
     location |-> PyNone, tags |-> PyList(<<>>), languages |-> PyList(<<>>),
     company |-> PyNone]

\* the details dict _extract_side_panel_info starts from
SidePanelDefaults ==
    [display_name |-> PyNone, username |-> PyNone, description |-> PyNone,
     location |-> PyNone, company |-> PyNone, about |-> PyNone,
     looking_for_teammates |-> PyBool(FALSE), project_description |-> PyNone,
     i_am_a_roles |-> PyList(<<>>), looking_for_roles |-> PyList(<<>>),
     interested_in_topics |-> PyList(<<>>), avatar_url |-> PyNone,
     profile_url |-> PyNone, tags |-> PyList(<<>>),
     languages |-> PyList(<<>>)]

\* extract_basic_info_from_card: what the text heuristics read from the card
extract_basic_info_from_card(card) == card.basic

\* _extract_side_panel_info: what the text heuristics read from the panel
extract_side_panel_info(card) == card.panel

\* a handler that drops what it has collected on a status other than 200
handle_response_DropOnFailure(collected, response) ==
    IF response.status = 200 THEN collected \o response.profiles
    ELSE <<>>

\* _handle_response for a profile API response: a 200 response extends
\* self.api_profiles with its records, any other status changes nothing
handle_response(collected, response) ==
    IF response.status = 200 THEN collected \o response.profiles
    ELSE collected

\* a merge loop without the "if value" test
MergeDetails_NoTest(profile, detailed_info) ==
    [k \in (DOMAIN profile) \cup (DOMAIN detailed_info) |->
        IF k \in DOMAIN detailed_info THEN detailed_info[k] ELSE profile[k]]

\* the merge loop of click_profile_and_extract_details
MergeDetails(profile, detailed_info) ==
    [k \in (DOMAIN profile)
           \cup {d \in DOMAIN detailed_info : Truthy(detailed_info[d])} |->
        IF k \in DOMAIN detailed_info /\ Truthy(detailed_info[k])
        THEN detailed_info[k] ELSE profile[k]]

\* a click_profile_and_extract_details that returns nothing of the card
\* when the click did not work
click_profile_and_extract_details_EmptyOnFailure(card, card_index) ==
    LET profile == DictSet(extract_basic_info_from_card(card), "card_index",
                           PyInt(card_index))
    IN IF ~card.clickable THEN EmptyDict
       ELSE MergeDetails(profile, extract_side_panel_info(card))

\* click_profile_and_extract_details: the card's basic info, merged with
\* the side panel's details when the click worked
click_profile_and_extract_details(card, card_index) ==
    LET profile == DictSet(extract_basic_info_from_card(card), "card_index",
                           PyInt(card_index))
    IN IF ~card.clickable THEN profile
       ELSE MergeDetails(profile, extract_side_panel_info(card))

\* a cleaning step that only removes the element handle
clean_profile_data_KeepIndex(data) == DictPop(data, "element")

\* ColosseumScraper._clean_profile_data
clean_profile_data(data) == DictPop(DictPop(data, "card_index"), "element")

\* the first pass of scrape_all_profiles over the (limited) card elements
FirstPass(card_elements) ==
    [i \in 1..Len(card_elements) |->
        DictSet(DictSet(extract_basic_info_from_card(card_elements[i]),
                        "card_index", PyInt(i - 1)),
                "element", PyInt(i))]

\* "if max_profiles and len(card_elements) > max_profiles"
LimitCards(card_elements, limit) ==
    IF limit # 0 /\ Len(card_elements) > limit
    THEN SubSeq(card_elements, 1, limit) ELSE card_elements

RECURSIVE FilterUnknown(_, _)
\* the fallback loop over the normalized API data
FilterUnknown(profile_data, known) ==
    IF profile_data = <<>> THEN <<>>
    ELSE (IF DictGet(Head(profile_data), "username") \notin known
          THEN <<clean_profile_data(Head(profile_data))>> ELSE <<>>)
         \o FilterUnknown(Tail(profile_data), known)

\* the body of the try block of the main loop for card i of basic_info
CompleteProfile(card, i, username) ==
    LET clicked == click_profile_and_extract_details(card, i - 1)
        named == IF ~Truthy(DictGet(clicked, "username"))
                 THEN DictSet(clicked, "username", username) ELSE clicked
        sourced == DictSet(clean_profile_data(named), "source_url",
                           ProfilesUrl)
    IN IF ~Truthy(DictGet(sourced, "profile_url")) /\ Truthy(username)
       THEN DictSet(sourced, "profile_url",
                    PyStr(ProfilesUrlPrefix \o LStripAt(username.s)))
       ELSE sourced

NoMerge == [clicked |-> FALSE, summary |-> EmptyDict, detail |-> EmptyDict,
            merged |-> EmptyDict]

\* scrape_all_profiles is called: navigate_to_profiles clears the
\* intercepted data and loads the page
ScrapeCall ==
    /\ spc = "idle"
    /\ spc' = "navigating"
    /\ api_profiles' = <<>>
    /\ pending' = page.responses
    /\ profiles' = <<>>
    /\ UNCHANGED <<page, existing_usernames, max_profiles, basic_info, idx,
                   handed, merge_log>>

\* the browser delivers a response to _handle_response
HandleResponse ==
    /\ spc = "navigating"
    /\ pending # <<>>
    /\ api_profiles' = handle_response(api_profiles, Head(pending))
    /\ pending' = Tail(pending)
    /\ UNCHANGED <<page, existing_usernames, max_profiles, spc, basic_info,
                   idx, profiles, handed, merge_log>>

\* navigate_to_profiles returns False (the browser is on another URL, or
\* goto raised): scrape_all_profiles returns []
NavigateFailed ==
    /\ spc = "navigating"
    /\ spc' = "returned"
    /\ UNCHANGED <<page, existing_usernames, max_profiles, pending,
                   api_profiles, basic_info, idx, profiles, handed, merge_log>>

\* navigate_to_profiles returns True and no card is found: the fallback to
\* the intercepted API data
NoCardsFallback ==
    /\ spc = "navigating"
    /\ page.cards = <<>>
    /\ profiles' = IF api_profiles # <<>>
                   THEN FilterUnknown(normalize_api_profiles(api_profiles),
                                      existing_usernames)
                   ELSE profiles
    /\ spc' = "returned"
    /\ UNCHANGED <<page, existing_usernames, max_profiles, pending,
                   api_profiles, basic_info, idx, handed, merge_log>>

\* navigate_to_profiles returns True and cards are found: the limit and the
\* first pass
CardsFound ==
    /\ spc = "navigating"
    /\ page.cards # <<>>
    /\ basic_info' = FirstPass(LimitCards(page.cards, max_profiles))
    /\ idx' = 1
    /\ spc' = "loop"
    /\ UNCHANGED <<page, existing_usernames, max_profiles, pending,
                   api_profiles, profiles, handed, merge_log>>

\* one iteration of the main loop that skips the card: no username, or a
\* known username
SkipCard ==
    /\ spc = "loop"
    /\ idx <= Len(basic_info)
    /\ LET username == DictGet(basic_info[idx], "username")
       IN ~Truthy(username) \/ username \in existing_usernames
    /\ idx' = idx + 1
    /\ UNCHANGED <<page, existing_usernames, max_profiles, spc, pending,
                   api_profiles, basic_info, profiles, handed, merge_log>>

\* one iteration of the main loop that processes the card: the record is
\* appended to profiles; the function has no save_callback parameter and
\* hands the record to nobody
ProcessCard ==
    /\ spc = "loop"
    /\ idx <= Len(basic_info)
    /\ LET username == DictGet(basic_info[idx], "username")
           card == page.cards[basic_info[idx]["element"].n]
       IN /\ Truthy(username)
          /\ username \notin existing_usernames
          /\ profiles' = Append(profiles, CompleteProfile(card, idx, username))
          /\ merge_log' =
                 [clicked |-> card.clickable,
                  summary |-> DictSet(extract_basic_info_from_card(card),
                                      "card_index", PyInt(idx - 1)),
                  detail |-> IF card.clickable
                             THEN extract_side_panel_info(card)
                             ELSE EmptyDict,
                  merged |-> click_profile_and_extract_details(card, idx - 1)]
    /\ idx' = idx + 1
    /\ UNCHANGED <<page, existing_usernames, max_profiles, spc, pending,
                   api_profiles, basic_info, handed>>

\* the main loop is over: scrape_all_profiles returns profiles
ScrapeReturn ==
    /\ spc = "loop"
    /\ idx > Len(basic_info)
    /\ spc' = "returned"
    /\ UNCHANGED <<page, existing_usernames, max_profiles, pending,
                   api_profiles, basic_info, idx, profiles, handed, merge_log>>

\* a KeyboardInterrupt ends the crawl where it is
ScrapeInterrupt ==
    /\ spc \in {"navigating", "loop"}
    /\ spc' = "interrupted"
    /\ UNCHANGED <<page, existing_usernames, max_profiles, pending,
                   api_profiles, basic_info, idx, profiles, handed, merge_log>>


(***************************************************************************)
(* colosseum_main.py: main                                                 *)
(***************************************************************************)
VARIABLES
    mpc,            \* where main is
    args,           \* the parsed command line
    exit_code,      \* what main returns, -1 while it runs
    total_inserted, \* the inserted counter of the run
    total_updated,  \* the updated counter of the run
    resources,      \* the browser resources acquired and not released
    crawl_called,   \* main has reached its call of scrape_all_profiles
    failures        \* what has failed in the run so far

mainVars ==
    <<mpc, args, exit_code, total_inserted, total_updated, resources,
      crawl_called, failures>>

\* the resources start() acquires, in the order it acquires them
StartOrder == <<"playwright", "browser", "context", "page">>

\* the parameters scrape_all_profiles declares, besides self
ScrapeAllProfilesParams == {"existing_usernames", "max_profiles"}

\* the keyword arguments main passes to scrape_all_profiles
MainCallKeywords == {"max_profiles", "save_callback", "reverse"}

\* a call with a keyword the function does not declare raises TypeError
CallRaisesTypeError == ~(MainCallKeywords \subseteq ScrapeAllProfilesParams)

\* ColosseumDatabase.get_existing_usernames
get_existing_usernames(tbl) ==
    {tbl[i]["username"] :
        i \in {j \in 1..Len(tbl) : Truthy(DictGet(tbl[j], "username"))}}

\* db = ColosseumDatabase(): it raises when the configuration is missing
MainInitDb ==
    /\ mpc = "init_db"
    /\ \E ok \in BOOLEAN :
          IF ok
          THEN mpc' = "mode" /\ exit_code' = exit_code
               /\ failures' = failures
          ELSE mpc' = "returned" /\ exit_code' = 1
               /\ failures' = failures \cup {"store_init"}
    /\ UNCHANGED <<args, total_inserted, total_updated, resources,
                   crawl_called, loader>>
    /\ UNCHANGED <<dbVars, scrapeVars>>

\* --test-db: test the connection, print the count and return
MainTestDb ==
    /\ mpc = "mode"
    /\ args.test_db
    /\ \E ok \in BOOLEAN :
          /\ exit_code' = IF ok THEN 0 ELSE 1
          /\ dbReads' = dbReads + (IF ok THEN 2 ELSE 1)
          /\ failures' = IF ok THEN failures
                         ELSE failures \cup {"connectivity"}
    /\ mpc' = "returned"
    /\ UNCHANGED <<args, total_inserted, total_updated, resources,
                   crawl_called, loader>>
    /\ UNCHANGED <<table, dbWrites, ncalls, call, batch, inflight, run_effect,
                   scrapeVars>>

\* the resources start() holds when it calls load_colosseum_cookies
HeldAtCookieLoad == 2

\* scraper.start(): it acquires the resources in order and loads the
\* cookies after the browser is launched; when one of its steps raises,
\* main returns 1 with what was acquired before.  An empty cookie list is
\* not an error of start()
MainStartScraper ==
    /\ mpc = "mode"
    /\ ~args.test_db
    /\ \E k \in 0..Len(StartOrder) :
          LET reached == k >= HeldAtCookieLoad
              loaded == load_colosseum_cookies(cookie_file, current_time)
              held == IF reached /\ loaded.status = "raised"
                      THEN HeldAtCookieLoad ELSE k
          IN /\ resources' = {StartOrder[i] : i \in 1..held}
             /\ loader' = IF reached THEN loaded ELSE loader
             /\ IF held = Len(StartOrder)
                THEN mpc' = "fetch_existing" /\ exit_code' = exit_code
                     /\ failures' =
                            IF loaded.cookies = <<>>
                            THEN failures \cup {"credentials"}
                            ELSE failures
                ELSE mpc' = "returned" /\ exit_code' = 1
                     /\ failures' =
                            IF reached /\ loaded.status = "raised"
                            THEN failures \cup {"start", "credentials"}
                            ELSE failures \cup {"start"}
    /\ UNCHANGED <<args, total_inserted, total_updated, crawl_called>>
    /\ UNCHANGED <<dbVars, scrapeVars>>

\* existing_usernames: read from the store unless --no-skip-existing; a
\* store error gives the empty set
MainFetchExisting ==
    /\ mpc = "fetch_existing"
    /\ IF args.no_skip_existing
       THEN existing_usernames' = {} /\ dbReads' = dbReads
       ELSE \E ok \in BOOLEAN :
               /\ existing_usernames' =
                      IF ok THEN get_existing_usernames(table) ELSE {}
               /\ dbReads' = dbReads + 1
    /\ mpc' = "scrape"
    /\ UNCHANGED <<args, exit_code, total_inserted, total_updated, resources,
                   crawl_called, failures, loader>>
    /\ UNCHANGED <<table, dbWrites, ncalls, call, batch, inflight, run_effect>>
    /\ UNCHANGED <<page, max_profiles, spc, pending, api_profiles,
                   basic_info, idx, profiles, handed, merge_log>>


RECURSIVE HandleAll(_, _)
\* _handle_response applied to the responses of a page load, in order
HandleAll(collected, responses) ==
    IF responses = <<>> THEN collected
    ELSE HandleAll(handle_response(collected, Head(responses)),
                   Tail(responses))

\* the dry-run branch with the listed cards handed to the store: the first
\* listed card is saved with insert_profile
MainDryRun_SavesListed ==
    /\ mpc = "scrape"
    /\ args.dry_run
    /\ api_profiles' = HandleAll(<<>>, page.responses)
    /\ \E navigated \in BOOLEAN :
          failures' = IF navigated THEN failures
                      ELSE failures \cup {"navigation"}
    /\ mpc' = "finally"
    /\ LET cards == normalize_api_profiles(api_profiles')
           saved == insert_profile(table, cards[1], "none")
       IN IF cards = <<>>
          THEN UNCHANGED <<table, dbReads, dbWrites>>
          ELSE /\ table' = saved.table
               /\ dbReads' = dbReads + saved.reads
               /\ dbWrites' = dbWrites + saved.writes
    /\ UNCHANGED <<args, exit_code, total_inserted, total_updated, resources,
                   crawl_called, loader>>
    /\ UNCHANGED <<ncalls, call, batch, inflight, run_effect>>
    /\ UNCHANGED <<page, existing_usernames, max_profiles, spc, pending,
                   basic_info, idx, profiles, handed, merge_log>>

\* --dry-run: navigate, list the cards when navigate_to_profiles returns
\* True, save nothing
MainDryRun ==
    /\ mpc = "scrape"
    /\ args.dry_run
    /\ api_profiles' = HandleAll(<<>>, page.responses)
    /\ \E navigated \in BOOLEAN :
          failures' = IF navigated THEN failures
                      ELSE failures \cup {"navigation"}
    /\ mpc' = "finally"
    /\ UNCHANGED <<args, exit_code, total_inserted, total_updated, resources,
                   crawl_called, loader>>
    /\ UNCHANGED dbVars
    /\ UNCHANGED <<page, existing_usernames, max_profiles, spc, pending,
                   basic_info, idx, profiles, handed, merge_log>>

\* the crawl branch: the counters are reset, save_profile_immediately is
\* defined and scrape_all_profiles is called with it; the call raises
\* TypeError, which "except Exception" turns into return 1
MainCrawl ==
    /\ mpc = "scrape"
    /\ ~args.dry_run
    /\ CallRaisesTypeError
    /\ max_profiles' = args.limit
    /\ total_inserted' = 0
    /\ total_updated' = 0
    /\ crawl_called' = TRUE
    /\ exit_code' = 1
    /\ failures' = failures \cup {"crawl"}
    /\ mpc' = "finally"
    /\ UNCHANGED <<args, resources, loader>>
    /\ UNCHANGED dbVars
    /\ UNCHANGED <<page, existing_usernames, spc, pending, api_profiles,
                   basic_info, idx, profiles, handed, merge_log>>

\* a KeyboardInterrupt inside the try block: return 1
MainInterrupt ==
    /\ mpc \in {"fetch_existing", "scrape"}
    /\ exit_code' = 1
    /\ failures' = failures \cup {"interrupt"}
    /\ mpc' = "finally"
    /\ UNCHANGED <<args, total_inserted, total_updated, resources,
                   crawl_called, loader>>
    /\ UNCHANGED <<dbVars, scrapeVars>>

\* finally: scraper.stop() releases what start() acquired; main returns
MainFinally ==
    /\ mpc = "finally"
    /\ resources' = {}
    /\ exit_code' = IF exit_code = -1 THEN 0 ELSE exit_code
    /\ mpc' = "returned"
    /\ UNCHANGED <<args, total_inserted, total_updated, crawl_called,
                   failures, loader>>
    /\ UNCHANGED <<dbVars, scrapeVars>>

(***************************************************************************)
(* Inputs.                                                                 *)
(***************************************************************************)
\* the sequences over S of length at most n
SeqUpTo(S, n) == UNION {[1..m -> S] : m \in 0..n}

UserA == PyStr(<<"@", "a">>)
UserB == PyStr(<<"@", "b">>)
UserC == PyStr(<<"@", "c">>)

\* rows of the store before the run
InitRows ==
    {[username |-> u, display_name |-> PyStr(<<"o">>)] :
        u \in {UserA, UserB, UserC}}
InitTables ==
    {t \in SeqUpTo(InitRows, MaxRows) :
        \A i, j \in 1..Len(t) : t[i].username = t[j].username => i = j}

\* arguments of insert_profile
UsernameParts ==
    {EmptyDict, [username |-> PyNone], [username |-> PyStr(<<>>)],
     [username |-> UserA], [username |-> UserB]}
FieldParts ==
    {EmptyDict,
     [display_name |-> PyStr(<<"n">>), card_index |-> PyInt(0)],
     [tags |-> PyStr(<<"[", "\"", "x", "\"", "]">>)],
     [display_name |-> PyStr(<<"m">>), tags |-> PyList(<<PyStr(<<"y">>)>>)]}
\* a profile whose tags are a string holding the JSON number 7
ScalarJsonTagsProfile == [username |-> UserA, tags |-> PyStr(<<"7">>)]
ProfileInputs ==
    {u @@ f : u \in UsernameParts, f \in FieldParts}
    \cup {ScalarJsonTagsProfile}

\* profiles of a list given to insert_batch
BatchProfiles ==
    {EmptyDict, [username |-> UserA], [username |-> UserB],
     [username |-> UserB, display_name |-> PyStr(<<"m">>),
      tags |-> PyList(<<PyStr(<<"y">>)>>)]}

\* raw API records
RawUsernameParts ==
    {EmptyDict, [username |-> PyStr(<<"a">>)], [username |-> UserA],
     [username |-> PyInt(7)],
     [username |-> PyStr(<<>>), handle |-> PyStr(<<"b">>)]}
RawBioParts == {EmptyDict, [short_bio |-> PyStr(<<"s">>)]}
RawTagsParts ==
    {EmptyDict, [tags |-> PyNone], [tags |-> PyStr(<<"x">>)],
     [tags |-> PyList(<<PyStr(<<"x">>)>>)], [roles |-> PyStr(<<"y">>)],
     [tags |-> PyNone, roles |-> PyStr(<<"y">>)]}
\* a record whose tags list repeats a value and holds an empty string
RepeatedTagsRecord ==
    [username |-> PyStr(<<"a">>),
     tags |-> PyList(<<PyStr(<<"x">>), PyStr(<<>>), PyStr(<<"x">>)>>)]
\* a record with a city and a country and no location
CityCountryRecord ==
    [username |-> PyStr(<<"a">>), city |-> PyStr(<<"c">>),
     country |-> PyStr(<<"k">>)]
RawProfiles ==
    {u @@ b @@ t : u \in RawUsernameParts, b \in RawBioParts,
                   t \in RawTagsParts}
    \cup {RepeatedTagsRecord, CityCountryRecord}

\* profile cards
CardBasics ==
    {BasicInfoDefaults,
     [BasicInfoDefaults EXCEPT !.username = UserA],
     [BasicInfoDefaults EXCEPT !.username = UserB],
     [BasicInfoDefaults EXCEPT !.username = UserB,
                               !.tags = PyList(<<PyStr(<<"t">>)>>)]}
PanelDetails ==
    {SidePanelDefaults,
     [SidePanelDefaults EXCEPT !.username = UserA,
                               !.display_name = PyStr(<<"N">>),
                               !.tags = PyList(<<PyStr(<<"T">>)>>)]}
Cards ==
    {[basic |-> b, clickable |-> TRUE, panel |-> d] :
        b \in CardBasics, d \in PanelDetails}
    \cup {[basic |-> [BasicInfoDefaults EXCEPT
                           !.username = UserB,
                           !.tags = PyList(<<PyStr(<<"t">>)>>)],
            clickable |-> FALSE, panel |-> SidePanelDefaults]}

\* responses of the profile API
Responses ==
    {[status |-> 200,
      profiles |-> <<[username |-> PyStr(<<"a">>)],
                     [username |-> PyStr(<<"b">>)]>>],
     [status |-> 401, profiles |-> <<[username |-> PyStr(<<"c">>)]>>]}

\* the pages scrape_all_profiles is run on: several cards with at most one
\* response, or at most one card with several responses
Pages ==
    {pg \in [cards : SeqUpTo(Cards, MaxCards),
             responses : SeqUpTo(Responses, MaxResponses)] :
        Len(pg.cards) <= 1 \/ Len(pg.responses) <= 1}

\* the pages main is run on: every card clickable, an empty side panel
MainCards ==
    {[basic |-> [BasicInfoDefaults EXCEPT !.username = u], clickable |-> TRUE,
      panel |-> SidePanelDefaults] : u \in {UserA, UserB}}
MainPages ==
    {pg \in [cards : SeqUpTo(MainCards, MaxCards),
             responses : SeqUpTo(Responses, MaxResponses)] :
        Len(pg.cards) <= 1 \/ Len(pg.responses) <= 1}

\* cookies of a credential file
CookieDomainParts ==
    {[domain |-> PyStr(<<"", "colosseum", "org">>)],
     [domain |-> PyStr(<<"evil", "com">>)]}
CookieNameParts ==
    {[name |-> PyStr(<<"sAccessToken">>), value |-> PyStr(<<"v">>)],
     [name |-> PyStr(<<"theme">>), value |-> PyStr(<<"w">>)]}
CookieExpiryParts ==
    {EmptyDict} \cup {[expirationDate |-> PyInt(n)] : n \in 0..MaxTime}
CookieSameSiteParts == {EmptyDict, [sameSite |-> PyStr(<<"Lax">>)]}
\* a cookie of the domain colosseum.org.evil.com
ForeignCookie ==
    [domain |-> PyStr(<<"colosseum", "org", "evil", "com">>),
     name |-> PyStr(<<"sAccessToken">>), value |-> PyStr(<<"x">>)]
\* a cookie whose domain is null
NullDomainCookie ==
    [domain |-> PyNone, name |-> PyStr(<<"sAccessToken">>),
     value |-> PyStr(<<"v">>)]
CookieInputs ==
    {d @@ n @@ e @@ s : d \in CookieDomainParts, n \in CookieNameParts,
                        e \in CookieExpiryParts, s \in CookieSameSiteParts}
    \cup {ForeignCookie, NullDomainCookie}
\* the file is absent, is not JSON, is a non-empty JSON object, or is a
\* JSON array of cookies
CookieFiles ==
    {[kind |-> "missing", cookies |-> <<>>],
     [kind |-> "invalid", cookies |-> <<>>],
     [kind |-> "object", cookies |-> <<>>]}
    \cup {[kind |-> "array", cookies |-> c] :
             c \in SeqUpTo(CookieInputs, MaxCookies)}

\* the credential files main is run with: absent, a JSON object, one
\* colosseum.org cookie
MainCookieFiles ==
    {[kind |-> "missing", cookies |-> <<>>],
     [kind |-> "object", cookies |-> <<>>],
     [kind |-> "array",
      cookies |-> <<[domain |-> PyStr(<<"", "colosseum", "org">>),
                     name |-> PyStr(<<"sAccessToken">>),
                     value |-> PyStr(<<"v">>)]>>]}

\* command lines
ArgsInputs ==
    [dry_run : BOOLEAN, no_skip_existing : BOOLEAN, test_db : BOOLEAN,
     limit : 0..MaxLimit]


(***************************************************************************)
(* Specifications.  Each one runs one component; the state of the others   *)
(* stays as it is before they are used.                                    *)
(***************************************************************************)
vars == <<dbVars, normVars, cookieVars, scrapeVars, mainVars>>

NoCall == [profile |-> EmptyDict, ok |-> FALSE]
NoBatch == [profiles |-> <<>>, fails |-> <<>>, count |-> -1]
NoInflight ==
    [c \in Callers |->
        [pc |-> "idle", profile |-> EmptyDict, found |-> FALSE, ok |-> FALSE]]
NoEffect == [added |-> 0, updated |-> 0]
NotLoaded == [status |-> "ready", cookies |-> <<>>, warnings |-> <<>>]
NoPage == [cards |-> <<>>, responses |-> <<>>]
NoArgs == [dry_run |-> FALSE, no_skip_existing |-> FALSE, test_db |-> FALSE,
           limit |-> 0]

DbIdle ==
    /\ dbReads = 0
    /\ dbWrites = 0
    /\ ncalls = 0
    /\ call = NoCall
    /\ batch = NoBatch
    /\ inflight = NoInflight
    /\ run_effect = NoEffect

NormIdle ==
    /\ api_input = <<>>
    /\ normalized = <<>>
    /\ renormalized = <<>>
    /\ npass = 0

CookieIdle ==
    /\ cookie_file = [kind |-> "missing", cookies |-> <<>>]
    /\ current_time = 0
    /\ loader = NotLoaded

ScrapeIdle ==
    /\ existing_usernames = {}
    /\ max_profiles = 0
    /\ spc = "idle"
    /\ pending = <<>>
    /\ api_profiles = <<>>
    /\ basic_info = <<>>
    /\ idx = 0
    /\ profiles = <<>>
    /\ handed = <<>>
    /\ merge_log = NoMerge

MainIdle ==
    /\ mpc = "idle"
    /\ args = NoArgs
    /\ exit_code = -1
    /\ total_inserted = 0
    /\ total_updated = 0
    /\ resources = {}
    /\ crawl_called = FALSE
    /\ failures = {}

\* the store adapter under one sequential caller, which makes single
\* insert_profile calls or one insert_batch call
DbInsertProfile ==
    /\ ncalls < MaxCalls
    /\ batch = NoBatch
    /\ \E profile_data \in ProfileInputs, fail \in StoreFailures :
          LET r == insert_profile(table, profile_data, fail)
          IN /\ table' = r.table
             /\ dbReads' = dbReads + r.reads
             /\ dbWrites' = dbWrites + r.writes
             /\ call' = [profile |-> profile_data, ok |-> r.ok]
    /\ ncalls' = ncalls + 1
    /\ UNCHANGED <<batch, inflight, run_effect>>
    /\ UNCHANGED <<normVars, cookieVars, scrapeVars, mainVars>>

DbInsertBatch ==
    /\ ncalls = 0
    /\ batch = NoBatch
    /\ \E profiles_arg \in SeqUpTo(BatchProfiles, MaxBatch) :
          \E fails \in [1..Len(profiles_arg) -> StoreFailures] :
             LET r == insert_batch(table, profiles_arg, fails)
             IN /\ table' = r.table
                /\ dbReads' = dbReads + r.reads
                /\ dbWrites' = dbWrites + r.writes
                /\ batch' = [profiles |-> profiles_arg, fails |-> fails,
                             count |-> r.count]
    /\ UNCHANGED <<ncalls, call, inflight, run_effect>>
    /\ UNCHANGED <<normVars, cookieVars, scrapeVars, mainVars>>

InitDb ==
    /\ table \in InitTables
    /\ DbIdle /\ NormIdle /\ CookieIdle /\ ScrapeIdle /\ MainIdle
    /\ page = NoPage

NextDb == DbInsertProfile \/ DbInsertBatch

SpecDb == InitDb /\ [][NextDb]_vars

\* insert_profile of caller c up to its existence check: the username test,
\* _prepare_profile_data and the select request
InsertSelect(c) ==
    /\ inflight[c].pc = "idle"
    /\ \E profile_data \in BatchProfiles, raised \in BOOLEAN :
          LET username == DictGet(profile_data, "username")
              ended == [pc |-> "done", profile |-> profile_data,
                        found |-> FALSE, ok |-> FALSE]
          IN IF UsernameMissing(username)
             THEN /\ inflight' = [inflight EXCEPT ![c] = ended]
                  /\ dbReads' = dbReads
             ELSE /\ dbReads' = dbReads + 1
                  /\ inflight' =
                         [inflight EXCEPT ![c] =
                             IF raised THEN ended
                             ELSE [pc |-> "checked",
                                   profile |-> profile_data,
                                   found |-> ProfileExists(table, username),
                                   ok |-> FALSE]]
    /\ UNCHANGED <<table, dbWrites, ncalls, call, batch, run_effect>>
    /\ UNCHANGED <<normVars, cookieVars, scrapeVars, mainVars>>

\* insert_profile of caller c after its existence check: the update request
\* when the check found a row, the insert request when it found none; the
\* store may raise on the request
InsertWrite(c) ==
    /\ inflight[c].pc = "checked"
    /\ \E raised \in BOOLEAN :
          LET username == inflight[c].profile["username"]
              prepared == prepare_profile_data(inflight[c].profile)
          IN /\ table' =
                    IF raised THEN table
                    ELSE IF inflight[c].found
                    THEN [i \in 1..Len(table) |->
                             IF i \in RowsWithUsername(table, username)
                             THEN UpdateRow(table[i], prepared)
                             ELSE table[i]]
                    ELSE Append(table, prepared)
             /\ inflight' = [inflight EXCEPT ![c].pc = "done",
                                             ![c].ok = ~raised]
    /\ dbWrites' = dbWrites + 1
    /\ UNCHANGED <<dbReads, ncalls, call, batch, run_effect>>
    /\ UNCHANGED <<normVars, cookieVars, scrapeVars, mainVars>>

InitRace ==
    /\ table \in InitTables
    /\ DbIdle /\ NormIdle /\ CookieIdle /\ ScrapeIdle /\ MainIdle
    /\ page = NoPage

NextRace == \E c \in Callers : InsertSelect(c) \/ InsertWrite(c)

\* two callers of insert_profile whose store requests interleave
SpecRace == InitRace /\ [][NextRace]_vars

\* save_profile_immediately, the save callback of the crawl branch of main,
\* called with a record: it counts the record as updated when its username
\* is in existing_usernames and as inserted otherwise, then calls
\* insert_profile
SaveProfileImmediately ==
    /\ Len(handed) < MaxCalls
    /\ \E profile \in BatchProfiles, fail \in StoreFailures :
          LET username == IF "username" \in DOMAIN profile
                          THEN profile["username"]
                          ELSE PyStr(<<"Unknown">>)
              existed == ProfileExists(table, username)
              r == insert_profile(table, profile, fail)
          IN /\ IF username \in existing_usernames
                THEN /\ total_updated' = total_updated + 1
                     /\ total_inserted' = total_inserted
                ELSE /\ total_inserted' = total_inserted + 1
                     /\ total_updated' = total_updated
             /\ table' = r.table
             /\ dbReads' = dbReads + r.reads
             /\ dbWrites' = dbWrites + r.writes
             /\ run_effect' =
                    [added |-> run_effect.added + Len(r.table) - Len(table),
                     updated |-> run_effect.updated
                                 + (IF r.ok /\ existed THEN 1 ELSE 0)]
             /\ handed' = Append(handed, profile)
    /\ UNCHANGED <<ncalls, call, batch, inflight>>
    /\ UNCHANGED <<page, existing_usernames, max_profiles, spc, pending,
                   api_profiles, basic_info, idx, profiles, merge_log>>
    /\ UNCHANGED <<mpc, args, exit_code, resources, crawl_called, failures>>
    /\ UNCHANGED <<normVars, cookieVars>>

\* the crawl branch before its first save: the counters are 0 and
\* existing_usernames is what main fetched, or empty with --no-skip-existing
\* or after a store error
InitSave ==
    /\ table \in InitTables
    /\ existing_usernames \in {get_existing_usernames(table), {}}
    /\ max_profiles = 0
    /\ spc = "idle"
    /\ pending = <<>>
    /\ api_profiles = <<>>
    /\ basic_info = <<>>
    /\ idx = 0
    /\ profiles = <<>>
    /\ handed = <<>>
    /\ merge_log = NoMerge
    /\ DbIdle /\ NormIdle /\ CookieIdle /\ MainIdle
    /\ page = NoPage

NextSave == SaveProfileImmediately

\* the save callback called with one record after the other
SpecSave == InitSave /\ [][NextSave]_vars

\* the normalizer, applied to a list of raw records and then to its output
Normalize ==
    /\ npass = 0
    /\ normalized' = normalize_api_profiles(api_input)
    /\ npass' = 1
    /\ UNCHANGED <<api_input, renormalized>>
    /\ UNCHANGED <<dbVars, cookieVars, scrapeVars, mainVars>>

Renormalize ==
    /\ npass = 1
    /\ renormalized' = normalize_api_profiles(normalized)
    /\ npass' = 2
    /\ UNCHANGED <<api_input, normalized>>
    /\ UNCHANGED <<dbVars, cookieVars, scrapeVars, mainVars>>

InitNorm ==
    /\ api_input \in SeqUpTo(RawProfiles, MaxRecs)
    /\ normalized = <<>>
    /\ renormalized = <<>>
    /\ npass = 0
    /\ table = <<>>
    /\ DbIdle /\ CookieIdle /\ ScrapeIdle /\ MainIdle
    /\ page = NoPage

NextNorm == Normalize \/ Renormalize

SpecNorm == InitNorm /\ [][NextNorm]_vars

\* the credential loader
LoadCookies ==
    /\ loader.status = "ready"
    /\ loader' = load_colosseum_cookies(cookie_file, current_time)
    /\ UNCHANGED <<cookie_file, current_time>>
    /\ UNCHANGED <<dbVars, normVars, scrapeVars, mainVars>>

InitCookie ==
    /\ cookie_file \in CookieFiles
    /\ current_time \in 1..MaxTime
    /\ loader = NotLoaded
    /\ table = <<>>
    /\ DbIdle /\ NormIdle /\ ScrapeIdle /\ MainIdle
    /\ page = NoPage

NextCookie == LoadCookies

SpecCookie == InitCookie /\ [][NextCookie]_vars

\* scrape_all_profiles(existing_usernames, max_profiles) called on a page
ScrapeStep(A) == A /\ UNCHANGED <<dbVars, normVars, cookieVars, mainVars>>

InitScrape ==
    /\ page \in Pages
    /\ existing_usernames \in SUBSET {UserA}
    /\ max_profiles \in 0..MaxLimit
    /\ spc = "idle"
    /\ pending = <<>>
    /\ api_profiles = <<>>
    /\ basic_info = <<>>
    /\ idx = 0
    /\ profiles = <<>>
    /\ handed = <<>>
    /\ merge_log = NoMerge
    /\ table = <<>>
    /\ DbIdle /\ NormIdle /\ CookieIdle /\ MainIdle

NextScrape ==
    \/ ScrapeStep(ScrapeCall)
    \/ ScrapeStep(HandleResponse)
    \/ ScrapeStep(NavigateFailed)
    \/ ScrapeStep(NoCardsFallback)
    \/ ScrapeStep(CardsFound)
    \/ ScrapeStep(SkipCard)
    \/ ScrapeStep(ProcessCard)
    \/ ScrapeStep(ScrapeReturn)
    \/ ScrapeStep(ScrapeInterrupt)

SpecScrape == InitScrape /\ [][NextScrape]_vars

\* main, run from the command line
MainStep(A) == A /\ UNCHANGED <<normVars, cookie_file, current_time>>

InitMain ==
    /\ table \in InitTables
    /\ page \in MainPages
    /\ args \in ArgsInputs
    /\ mpc = "init_db"
    /\ exit_code = -1
    /\ total_inserted = 0
    /\ total_updated = 0
    /\ resources = {}
    /\ crawl_called = FALSE
    /\ failures = {}
    /\ cookie_file \in MainCookieFiles
    /\ current_time = 1
    /\ loader = NotLoaded
    /\ DbIdle /\ NormIdle /\ ScrapeIdle

NextMain ==
    \/ MainStep(MainInitDb)
    \/ MainStep(MainTestDb)
    \/ MainStep(MainStartScraper)
    \/ MainStep(MainFetchExisting)
    \/ MainStep(MainDryRun)
    \/ MainStep(MainCrawl)
    \/ MainStep(MainInterrupt)
    \/ MainStep(MainFinally)

SpecMain == InitMain /\ [][NextMain]_vars


(***************************************************************************)
(* Properties.                                                             *)
(***************************************************************************)
\* the usernames of the records of a list, in order
UsernamesOf(records) ==
    [i \in 1..Len(records) |-> DictGet(records[i], "username")]

\* the batch of a run of main: the usernames the cards of the page carry,
\* cut to --limit
BatchUsernames ==
    LET cards == LimitCards(page.cards, args.limit)
    IN [i \in 1..Len(cards) |-> cards[i].basic.username]

BatchUnknown == SelectSeq(BatchUsernames, LAMBDA u : u \notin existing_usernames)

\* C1: when a crawl run of main without --no-skip-existing has returned,
\* the save callback has been invoked with exactly the records of the batch
\* whose username is not in the known-username set, and each of them has
\* been counted as inserted.
C1_UnknownRecordsPersisted ==
    (mpc = "returned" /\ crawl_called /\ ~args.no_skip_existing)
        => /\ UsernamesOf(handed) = BatchUnknown
           /\ total_inserted = Len(BatchUnknown)

\* C2: when a crawl run of main with --no-skip-existing has returned, the
\* save callback has been invoked with every record of the batch; the
\* records whose username is in the store are counted as updated, the others
\* as inserted.
C2_ForcedRecordsPersisted ==
    (mpc = "returned" /\ crawl_called /\ args.no_skip_existing)
        => /\ UsernamesOf(handed) = BatchUsernames
           /\ total_updated =
                  Cardinality({i \in 1..Len(BatchUsernames) :
                      BatchUsernames[i] \in get_existing_usernames(table)})
           /\ total_inserted =
                  Cardinality({i \in 1..Len(BatchUsernames) :
                      BatchUsernames[i] \notin get_existing_usernames(table)})

\* C3: at every point of the crawl, at most one of the records the driver
\* has processed has not been handed to the save callback.
C3_AtMostOneInFlight == Len(profiles) - Len(handed) <= 1

\* at most one row per username
OneRowPerUsername(tbl) ==
    \A i, j \in 1..Len(tbl) :
        DictGet(tbl[i], "username") = DictGet(tbl[j], "username") => i = j

\* the fields of profile that row holds as given (a collection field given
\* as a string is stored parsed, card_index is not stored)
HoldsProfile(row, profile) ==
    \A k \in DOMAIN profile :
        IF k = "card_index" THEN k \notin DOMAIN row
        ELSE /\ k \in DOMAIN row
             /\ (k \notin jsonb_fields \/ profile[k].t = "list")
                    => row[k] = profile[k]

C4_Step ==
    (ncalls' = ncalls + 1) =>
        LET profile == call'.profile
            u == DictGet(profile, "username")
            before == {i \in 1..Len(table) : DictGet(table[i], "username") = u}
            after == {i \in 1..Len(table') : DictGet(table'[i], "username") = u}
        IN /\ OneRowPerUsername(table) => OneRowPerUsername(table')
           /\ \A i \in (1..Len(table)) \ before : table'[i] = table[i]
           /\ ~call'.ok => table' = table
           /\ (call'.ok /\ before = {}) =>
                  /\ Len(table') = Len(table) + 1
                  /\ after = {Len(table')}
                  /\ HoldsProfile(table'[Len(table')], profile)
           /\ (call'.ok /\ before # {}) =>
                  /\ Len(table') = Len(table)
                  /\ after = before
                  /\ \A i \in before :
                        /\ HoldsProfile(table'[i], profile)
                        /\ \A k \in (DOMAIN table[i]) \ (DOMAIN profile) :
                              k \in DOMAIN table'[i]
                              /\ table'[i][k] = table[i][k]

\* C4: every insert_profile call of the sequential caller keeps at most one
\* row per username; a successful call with username u appends a row
\* holding the profile when no row has username u, and otherwise sets the
\* profile's fields in the row of u; rows of other usernames do not change.
C4_UpsertByUsername == [][C4_Step]_vars

\* a successful call has updated a row that keeps a field from before
C4_Witness ==
    /\ call.ok
    /\ "display_name" \notin DOMAIN call.profile
    /\ "tags" \in DOMAIN call.profile
    /\ \E i \in 1..Len(table) :
          /\ DictGet(table[i], "username") = DictGet(call.profile, "username")
          /\ "display_name" \in DOMAIN table[i]
          /\ "tags" \in DOMAIN table[i]
    /\ \E i \in 1..Len(table) :
          DictGet(table[i], "username") # DictGet(call.profile, "username")

\* a username that is missing, None or empty
NoUsername(profile) ==
    \/ "username" \notin DOMAIN profile
    \/ profile["username"].t = "none"
    \/ profile["username"] = PyStr(<<>>)

C5_Step ==
    /\ (ncalls' = ncalls + 1 /\ NoUsername(call'.profile)) =>
          /\ ~call'.ok
          /\ dbReads' = dbReads
          /\ dbWrites' = dbWrites
          /\ table' = table
    /\ \A i \in 1..Len(table') :
          "username" \in DOMAIN table'[i]
          /\ table'[i]["username"].t = "str"
          /\ table'[i]["username"].s # <<>>

\* C5: an insert_profile call whose profile has no username (missing, None
\* or empty) returns False without a read or a write, and no row of the
\* store ever has an empty username.
C5_NoUsernameRejected == [][C5_Step]_vars

\* a call with an empty username has returned False after earlier requests
C5_Witness ==
    /\ ncalls = 2
    /\ call.profile \in {p \in ProfileInputs : "username" \in DOMAIN p}
    /\ DictGet(call.profile, "username") = PyStr(<<>>)
    /\ ~call.ok
    /\ dbReads = 1
    /\ dbWrites = 1

\* a value that is missing or empty
EmptyValue(v) ==
    \/ v.t = "none"
    \/ (v.t = "str" /\ v.s = <<>>)
    \/ (v.t = "list" /\ v.l = <<>>)

\* C6: after click_profile_and_extract_details, a field for which the card
\* and the side panel both have a non-empty value holds the side panel's
\* value; a field of the card for which the side panel has no value or an
\* empty one keeps the card's value.
C6_DetailPrecedence ==
    \A k \in DOMAIN merge_log.summary :
        LET s == merge_log.summary[k]
            detailEmpty == \/ ~merge_log.clicked
                           \/ k \notin DOMAIN merge_log.detail
                           \/ EmptyValue(merge_log.detail[k])
        IN /\ k \in DOMAIN merge_log.merged
           /\ (~EmptyValue(s) /\ ~detailEmpty)
                  => merge_log.merged[k] = merge_log.detail[k]
           /\ detailEmpty => merge_log.merged[k] = s

\* a card and its side panel gave different tags and usernames, and the
\* side panel no location
C6_Witness ==
    /\ merge_log.clicked
    /\ ~EmptyValue(merge_log.summary["tags"])
    /\ ~EmptyValue(merge_log.detail["tags"])
    /\ merge_log.summary["tags"] # merge_log.detail["tags"]
    /\ merge_log.summary["username"] = UserB
    /\ merge_log.detail["username"] = UserA
    /\ merge_log.merged["username"] = UserA


\* the raw record a normalized profile was made from
SourceOf(profile) == api_input[profile["card_index"].n + 1]

\* the username a raw record gives: its username, or its handle when the
\* username is missing or empty
GivenUsername(raw) ==
    IF "username" \in DOMAIN raw /\ ~EmptyValue(raw["username"])
    THEN raw["username"]
    ELSE DictGet(raw, "handle")

\* C7: a raw record whose username is a string without a leading "@" is
\* normalized to a profile whose username is that string prefixed with "@";
\* a username with a leading "@" is kept; normalizing the result again
\* leaves every username as it is.
C7_UsernamePrefixed ==
    /\ npass >= 1 =>
          /\ \A i \in 1..Len(api_input) :
                (GivenUsername(api_input[i]).t = "str"
                 /\ GivenUsername(api_input[i]).s # <<>>)
                    => \E j \in 1..Len(normalized) :
                          normalized[j]["card_index"] = PyInt(i - 1)
          /\ \A j \in 1..Len(normalized) :
                LET given == GivenUsername(SourceOf(normalized[j])).s
                IN normalized[j]["username"] =
                       IF given[1] = "@" THEN PyStr(given)
                       ELSE PyStr(<<"@">> \o given)
    /\ npass = 2 => UsernamesOf(renormalized) = UsernamesOf(normalized)

\* records with and without the "@" have been normalized twice
C7_Witness ==
    /\ npass = 2
    /\ Len(api_input) = 2
    /\ DictGet(api_input[1], "username") = PyStr(<<"a">>)
    /\ DictGet(api_input[2], "username") = UserA
    /\ UsernamesOf(renormalized) = <<UserA, UserA>>

CollectionFields ==
    {"tags", "languages", "i_am_a_roles", "looking_for_roles",
     "interested_in_topics"}

\* the source keys of a collection field
CollectionKeys(f) == {array_mappings[f][i] : i \in 1..Len(array_mappings[f])}

\* C8: in a normalized profile every collection field is a list; it is the
\* one-element list of the source value when the record gives the field as
\* a non-empty string, and the empty list when the record gives it as null
\* or has none of its source keys.
C8_CollectionCoerced ==
    npass >= 1 =>
        \A j \in 1..Len(normalized) : \A f \in CollectionFields :
            LET raw == SourceOf(normalized[j])
            IN /\ normalized[j][f].t = "list"
               /\ (f \in DOMAIN raw /\ raw[f].t = "str" /\ raw[f].s # <<>>)
                      => normalized[j][f] = PyList(<<raw[f]>>)
               /\ ((f \in DOMAIN raw /\ raw[f].t = "none")
                   \/ CollectionKeys(f) \cap DOMAIN raw = {})
                      => normalized[j][f] = PyList(<<>>)

\* a record with tags given as a string and one with tags given as null
\* have been normalized
C8_Witness ==
    /\ npass >= 1
    /\ Len(normalized) = 2
    /\ DictGet(SourceOf(normalized[1]), "tags") = PyStr(<<"x">>)
    /\ normalized[1]["tags"] = PyList(<<PyStr(<<"x">>)>>)
    /\ "tags" \in DOMAIN SourceOf(normalized[2])
    /\ SourceOf(normalized[2])["tags"] = PyNone
    /\ normalized[2]["tags"] = PyList(<<>>)

\* C9: normalizing the output of the normalizer gives that output again,
\* field for field.
C9_Idempotent == npass = 2 => renormalized = normalized

\* a credential of the target domain whose expirationDate is earlier than
\* the current time
ExpiredCredential(cookie) ==
    /\ "domain" \in DOMAIN cookie
    /\ ContainsColosseumOrg(cookie["domain"].s)
    /\ "expirationDate" \in DOMAIN cookie
    /\ cookie["expirationDate"].t = "int"
    /\ cookie["expirationDate"].n < current_time

WithoutExpired(cookies) ==
    SelectSeq(cookies, LAMBDA c : ~ExpiredCredential(c))

\* C10: when the loader has returned, each expired credential of the target
\* domain has been warned about, and the output is the output for the file
\* without the expired credentials.
C10_ExpiredExcluded ==
    (loader.status = "returned" /\ cookie_file.kind = "array") =>
        /\ \A i \in 1..Len(cookie_file.cookies) :
              ExpiredCredential(cookie_file.cookies[i])
                  => \E w \in 1..Len(loader.warnings) :
                        /\ loader.warnings[w].kind = "expired"
                        /\ loader.warnings[w].name =
                               DictGet(cookie_file.cookies[i], "name")
        /\ loader.cookies =
               load_colosseum_cookies(
                   [kind |-> "array",
                    cookies |-> WithoutExpired(cookie_file.cookies)],
                   current_time).cookies

\* a domain that is colosseum.org or one of its subdomains (".colosseum.org"
\* has an empty first label)
BelongsToTarget(domain) ==
    /\ Len(domain) >= 2
    /\ domain[Len(domain) - 1] = "colosseum"
    /\ domain[Len(domain)] = "org"

\* a credential of the target domain
TargetCredential(cookie) ==
    /\ "domain" \in DOMAIN cookie
    /\ cookie["domain"].t = "str"
    /\ BelongsToTarget(cookie["domain"].s)

\* a credential whose expiry, if it has one, has not passed
NonExpired(cookie) ==
    ~(/\ "expirationDate" \in DOMAIN cookie
      /\ cookie["expirationDate"].t = "int"
      /\ cookie["expirationDate"].n < current_time)

\* the output entry of a credential for a host
EntryFor(cookie, host) == DictSet(BaseCookie(cookie), "domain", host)

\* C11: when the loader has returned, every non-expired credential of the
\* target domain has its entry in the output for arena.colosseum.org and for
\* api.colosseum.org, as many times as the file holds that credential.
C11_ReplicatedOnBothHosts ==
    (loader.status = "returned" /\ cookie_file.kind = "array") =>
        \A i \in 1..Len(cookie_file.cookies) :
            LET c == cookie_file.cookies[i]
            IN (TargetCredential(c) /\ NonExpired(c)) =>
                  \A host \in {ArenaDomain, ApiDomain} :
                      Cardinality({k \in 1..Len(loader.cookies) :
                          loader.cookies[k] = EntryFor(c, host)})
                      = Cardinality({j \in 1..Len(cookie_file.cookies) :
                            /\ TargetCredential(cookie_file.cookies[j])
                            /\ NonExpired(cookie_file.cookies[j])
                            /\ EntryFor(cookie_file.cookies[j], host)
                                   = EntryFor(c, host)})

\* the fields of a credential object that hold strings
StringFields == {"domain", "name", "value", "path", "sameSite"}

\* a file that is absent, is not JSON, or is JSON other than an array of
\* credential objects with string-valued fields
MalformedFile(file) ==
    \/ file.kind \in {"missing", "invalid", "object"}
    \/ /\ file.kind = "array"
       /\ \E i \in 1..Len(file.cookies) :
             \E k \in StringFields \cap DOMAIN file.cookies[i] :
                 file.cookies[i][k].t # "str"

\* C12: the loader, called on a missing or malformed credential file, has
\* returned the empty credential list and has not raised.
C12_FailsSoft ==
    (loader.status # "ready" /\ MalformedFile(cookie_file)) =>
        /\ loader.status = "returned"
        /\ loader.cookies = <<>>

\* C13: when the loader has returned, its output is the output for the file
\* without the credentials of other domains.
C13_OnlyTargetDomain ==
    (loader.status = "returned" /\ cookie_file.kind = "array") =>
        loader.cookies =
            load_colosseum_cookies(
                [kind |-> "array",
                 cookies |-> SelectSeq(cookie_file.cookies, TargetCredential)],
                current_time).cookies

\* the responses the browser has delivered so far
Delivered == SubSeq(page.responses, 1, Len(page.responses) - Len(pending))

RECURSIVE SuccessRecords(_)
\* the records of the responses with status 200, in order
SuccessRecords(responses) ==
    IF responses = <<>> THEN <<>>
    ELSE (IF Head(responses).status = 200 THEN Head(responses).profiles
          ELSE <<>>)
         \o SuccessRecords(Tail(responses))

\* the normalized records of a list whose username is not known
UnknownNormalized(records) ==
    SelectSeq(normalize_api_profiles(records),
              LAMBDA r : r["username"] \notin existing_usernames)

C14_Step ==
    /\ (pending # <<>> /\ pending' = Tail(pending)
          /\ Head(pending).status # 200) =>
          /\ api_profiles' = api_profiles
          /\ profiles' = profiles
          /\ spc' = spc
    /\ (spc = "navigating" /\ spc' = "returned" /\ api_profiles # <<>>
          /\ profiles' # profiles) =>
          UsernamesOf(profiles') =
              UsernamesOf(UnknownNormalized(SuccessRecords(Delivered)))

C15_ResourcesReleased == mpc = "returned" => resources = {}

\* C20: main returns 0 or 1; it returns 0 exactly when nothing has failed
\* in the run: neither the store initialisation, the connectivity test,
\* the start of the scraper, the loading of the credentials, the navigation
\* nor the crawl, and the run was not interrupted.
C20_ExitCodeDistinguishes ==
    mpc = "returned" =>
        /\ exit_code \in {0, 1}
        /\ exit_code = 0 <=> failures = {}

\* C16: when scrape_all_profiles, given a maximum record count of at least
\* one, has returned, the list it returns has at most that many profiles.
C16_AtMostMaxProfiles ==
    (spc = "returned" /\ max_profiles >= 1) => Len(profiles) <= max_profiles

\* C17: every profile scrape_all_profiles has built, prepared for the store
\* by _prepare_profile_data, has each of the five collection fields, and
\* the field is a list.
C17_CollectionFieldsPresent ==
    \A i \in 1..Len(profiles) : \A f \in CollectionFields :
        LET prepared == prepare_profile_data(profiles[i])
        IN f \in DOMAIN prepared /\ prepared[f].t = "list"

\* the fields that only exist during extraction
TransientFields == {"card_index", "element"}

\* the rows insert_profile writes for a profile: inserted into stores
\* without its username, updated in a store that has it
RowsWrittenFor(profile) ==
    LET inserted == insert_profile(<<>>, profile, "none").table
        updated == insert_profile(
                       <<[username |-> DictGet(profile, "username")]>>,
                       profile, "none").table
    IN {inserted[i] : i \in 1..Len(inserted)}
       \cup {updated[i] : i \in 1..Len(updated)}

\* insert_profile, given a profile that carries a card_index, writes a row
\* without it
IndexNeverWritten ==
    \A profile \in ProfileInputs :
        \A row \in RowsWrittenFor(profile) : "card_index" \notin DOMAIN row

\* insert_profile has inputs that carry a card_index and a username
IndexedInputs ==
    \E profile \in ProfileInputs :
        /\ "card_index" \in DOMAIN profile
        /\ Truthy(DictGet(profile, "username"))

\* C18: no profile scrape_all_profiles has built has a card_index or an
\* element field, on the card path and on the API fallback path, and
\* neither has a row insert_profile writes for it; a row insert_profile
\* writes for a profile that carries a card_index has no card_index.
C18_NoTransientFields ==
    /\ \A i \in 1..Len(profiles) :
          /\ TransientFields \cap DOMAIN profiles[i] = {}
          /\ \A row \in RowsWrittenFor(profiles[i]) :
                TransientFields \cap DOMAIN row = {}
    /\ IndexNeverWritten

\* a profile has been built from a card that carried both fields during
\* the first pass
C18_Witness ==
    /\ spc = "returned"
    /\ Len(profiles) = 2
    /\ \A i \in 1..Len(basic_info) :
          TransientFields \subseteq DOMAIN basic_info[i]
    /\ IndexedInputs

RECURSIVE TableAfter(_)
\* the store after insert_profile has been applied to the first k profiles
\* of the batch, one after the other
TableAfter(k) ==
    IF k = 0 THEN table
    ELSE insert_profile(TableAfter(k - 1), batch'.profiles[k],
                        batch'.fails[k]).table

\* the positions of the batch whose upsert succeeds
BatchSucceeded ==
    {k \in 1..Len(batch'.profiles) :
        insert_profile(TableAfter(k - 1), batch'.profiles[k],
                       batch'.fails[k]).ok}

C19_Step ==
    (batch = NoBatch /\ batch' # NoBatch) =>
        /\ table' = TableAfter(Len(batch'.profiles))
        /\ batch'.count = Cardinality(BatchSucceeded)
        /\ 0 <= batch'.count
        /\ batch'.count <= Len(batch'.profiles)
        /\ dbReads' - dbReads =
               Cardinality({k \in 1..Len(batch'.profiles) :
                   ~NoUsername(batch'.profiles[k])})

\* C19: insert_batch leaves the store as insert_profile applied to the
\* profiles in list order leaves it, whichever of the calls fail; every
\* profile with a username gets its select request; the count returned is
\* the number of calls that succeeded, between 0 and the length of the list.
C19_BatchIsSequential == [][C19_Step]_vars

\* a batch whose first upsert failed on a store error and whose second
\* inserted a row
C19_Witness ==
    /\ Len(batch.profiles) = 2
    /\ ~NoUsername(batch.profiles[1])
    /\ batch.fails[1] = "select"
    /\ batch.fails[2] = "none"
    /\ batch.count = 1
    /\ \E i \in 1..Len(table) :
          /\ DictGet(table[i], "username")
                 = DictGet(batch.profiles[2], "username")
          /\ DictGet(table[i], "tags") = PyList(<<PyStr(<<"y">>)>>)

\* C21: in a run of main with --dry-run no step changes the rows of the store
\* or issues a write request (insert, update or delete) to it
C21_DryRunWritesNothing ==
    [][args.dry_run => (table' = table /\ dbWrites' = dbWrites)]_vars

\* a dry run that listed collected records over a non-empty store and
\* returned
C21_Witness ==
    /\ mpc = "returned"
    /\ args.dry_run
    /\ ~args.test_db
    /\ exit_code = 0
    /\ api_profiles # <<>>
    /\ table # <<>>
    /\ dbWrites = 0

\* the positions of basic_info the main loop does not skip
Eligible ==
    {i \in 1..Len(basic_info) :
        /\ Truthy(DictGet(basic_info[i], "username"))
        /\ DictGet(basic_info[i], "username") \notin existing_usernames}

\* the eligible positions whose card cannot be clicked: the detail
\* extraction fails for them
DetailFailed ==
    {i \in Eligible : ~page.cards[basic_info[i]["element"].n].clickable}

\* record p carries the summary data read from the card at position i
CarriesSummary(p, i) ==
    LET summary == extract_basic_info_from_card(
                       page.cards[basic_info[i]["element"].n])
    IN \A k \in DOMAIN summary : k \in DOMAIN p /\ p[k] = summary[k]

\* C22: when scrape_all_profiles has returned from its loop over the cards,
\* a record was returned for every card it did not skip, whether its detail
\* extraction failed or not, and the record of a card whose detail
\* extraction failed carries the card's summary data
C22_DetailFailureKeepsRecord ==
    (spc = "returned" /\ basic_info # <<>>) =>
        /\ Len(profiles) = Cardinality(Eligible)
        /\ \A i \in DetailFailed :
              \E j \in 1..Len(profiles) : CarriesSummary(profiles[j], i)

\* the detail extraction failed for the first of two cards and both records
\* were returned, the first with the tags of its card
C22_Witness ==
    /\ spc = "returned"
    /\ Len(basic_info) = 2
    /\ 1 \in DetailFailed
    /\ 2 \in Eligible
    /\ Len(profiles) = 2
    /\ profiles[1]["tags"] = PyList(<<PyStr(<<"t">>)>>)

\* C28: the username of a returned record is the username read from its card
\* for the skip decision: merging the detail never changes it, and no
\* returned record has a username of existing_usernames
C28_UsernameKeptByMerge ==
    /\ merge_log # NoMerge =>
           merge_log.merged["username"] = merge_log.summary["username"]
    /\ \A j \in 1..Len(profiles) :
           DictGet(profiles[j], "username") \notin existing_usernames

\* C29: the records scrape_all_profiles has collected have pairwise distinct
\* usernames
C29_DistinctUsernames ==
    \A i, j \in 1..Len(profiles) :
        i # j => DictGet(profiles[i], "username")
                     # DictGet(profiles[j], "username")

\* the elements of a collection value are non-empty strings, each once
CleanCollection(v) ==
    /\ v.t = "list"
    /\ \A i \in 1..Len(v.l) : v.l[i].t = "str" /\ v.l[i].s # <<>>
    /\ \A i, j \in 1..Len(v.l) : i # j => v.l[i] # v.l[j]

\* C23: every collection field of a normalized profile is a list of
\* non-empty strings without duplicates
C23_CollectionsClean ==
    npass >= 1 =>
        \A j \in 1..Len(normalized) : \A f \in CollectionFields :
            CleanCollection(normalized[j][f])

RECURSIVE FirstNonEmpty(_, _)
\* the value of the first key of the priority list that the record has with
\* a non-empty value; None when there is none
FirstNonEmpty(raw, keys) ==
    IF keys = <<>> THEN PyNone
    ELSE IF Head(keys) \in DOMAIN raw /\ ~EmptyValue(raw[Head(keys)])
    THEN raw[Head(keys)]
    ELSE FirstNonEmpty(raw, Tail(keys))

\* the scalar target fields other than the username
ScalarFields ==
    {"display_name", "description", "location", "company", "about",
     "avatar_url"}

\* C24: every scalar field of a normalized profile is the value of the first
\* key of its priority list that the source record has with a non-empty
\* value, and every collection field is that value as a list; a key that is
\* present with an empty or null value does not stop a later key
C24_FirstNonEmptyKey ==
    npass >= 1 =>
        \A j \in 1..Len(normalized) :
            /\ \A f \in ScalarFields :
                  normalized[j][f] =
                      FirstNonEmpty(SourceOf(normalized[j]),
                                    field_mappings[f])
            /\ \A f \in CollectionFields :
                  normalized[j][f] =
                      CoerceArray(FirstNonEmpty(SourceOf(normalized[j]),
                                                array_mappings[f]))

\* C25: a record without a location and with a city and a country is
\* normalized to a profile whose location is the city and the country
\* joined with a comma
C25_LocationJoined ==
    npass >= 1 =>
        \A j \in 1..Len(normalized) :
            LET raw == SourceOf(normalized[j])
            IN (/\ EmptyValue(DictGet(raw, "location"))
                /\ ~EmptyValue(DictGet(raw, "city"))
                /\ ~EmptyValue(DictGet(raw, "country")))
               => normalized[j]["location"] =
                      PyStr(raw["city"].s \o <<", ">> \o raw["country"].s)

\* C27: after _prepare_profile_data every one of the five collection fields
\* the profile has is a list, and so is it in the row insert_profile wrote
\* for the profile
C27_PreparedCollectionsAreLists ==
    call # NoCall =>
        /\ \A f \in jsonb_fields \cap DOMAIN call.profile :
              prepare_profile_data(call.profile)[f].t = "list"
        /\ call.ok =>
              \A i \in RowsWithUsername(table, call.profile["username"]) :
                  \A f \in jsonb_fields \cap DOMAIN call.profile :
                      table[i][f].t = "list"

\* a finished insert_profile call of caller c for a username its existence
\* check did not find
InsertedNew(c) ==
    /\ inflight[c].pc = "done"
    /\ inflight[c].ok
    /\ ~inflight[c].found

\* C30: when two interleaved insert_profile calls for the same new username
\* have both finished, the store holds exactly one row with that username
C30_RaceLeavesOneRow ==
    \A c, d \in Callers :
        (/\ c # d
         /\ InsertedNew(c) /\ InsertedNew(d)
         /\ inflight[c].profile["username"] = inflight[d].profile["username"])
        => Cardinality(RowsWithUsername(table,
                                        inflight[c].profile["username"])) = 1

\* C26: the inserted counter of the crawl run is the number of rows the run
\* has added to the store and the updated counter is the number of updates
\* of existing rows it has made
C26_CountsMatchStore ==
    /\ total_inserted = run_effect.added
    /\ total_updated = run_effect.updated

====
